---- MODULE Spec2Model ----
(***************************************************************************)
(* Model of the latency-analysis scripts of InP_DApp_Analysis              *)
(* (src/Latency_Categorize_data/*.py).                                     *)
(*                                                                         *)
(* Every script is the same batch pipeline:                                *)
(*   process_service_data (Loader)  ->  pd.qcut (Quintile Binner)          *)
(*   ->  kruskal (Omnibus Tester)   ->  posthoc_dunn + Cliff's delta.      *)
(*                                                                         *)
(* Three specifications share the variables of this module:                *)
(*   SpecBin   the Quintile Binner applied to one covariate column;        *)
(*   SpecLoad  the Loader of each script, file by file, then the merge;    *)
(*   Spec      the test / post-hoc control flow of each script.            *)
(* A specification leaves the variables of the other two at their idle     *)
(* values.                                                                 *)
(***************************************************************************)
EXTENDS Integers, Sequences, FiniteSets, TLC

VARIABLES
    \* ---- Quintile Binner (SpecBin)
    column,        \* the covariate column handed to pd.qcut, in row order
    qcutResult,    \* outcome of pd.qcut on column: [status, labels]
    \* ---- Loader (SpecLoad)
    loader,        \* which script's process_service_data runs
    mode,          \* "hash" (use_transaction_hash) or "index" (index_based)
    lpc,           \* position of the Loader
    fileIdx,       \* index of the next file of the list being read
    latencyList,   \* latency_data_list: one frame (sequence of rows) per file kept
    gasList,       \* gas_data_list / block_data_list: one frame per file kept
    fileLog,       \* what happened to each file read so far, in order
    merged,        \* the table the Loader returned
    printed,       \* the message printed for each file read so far, in order
    mainOut,       \* what the script did with the loaded table, the definition
                   \* its name plot_combined_data is bound to (0: none) and the
                   \* definition whose body the plotting call executed (0: none)
    \* ---- Cliff's delta (SpecDelta)
    lst1,          \* first argument of cliffs_delta
    lst2,          \* second argument of cliffs_delta
    delta,         \* outcome of cliffs_delta(lst1, lst2): [status, num, den]
    \* ---- Index-mode grouping (SpecGroup)
    frame,         \* the frame read from a latency file: [hasUser, rows]
    grouped,       \* outcome of df.groupby(...).first().reset_index()
    \* ---- Tests and post-hoc (Spec, SpecData)
    script,        \* which script runs
    pc,            \* position of the script
    factor,        \* index of the covariate being processed
    kwP,           \* per covariate: the p-value kruskal returned, NoP before the test
    kwTable,       \* per covariate: the row of the omnibus table / the line printed
    kwCalls,       \* per covariate: how many times kruskal has been called
    dunnRan,       \* the covariates for which posthoc_dunn has been called
    posthoc,       \* the post-hoc table of the covariate processed last
    latency,       \* the 'Latency (s)' column of the table tested, in row order
                   \* (empty: the tests' results are left open)
    tableCols      \* the columns of the merged table the script works on

binVars  == <<column, qcutResult>>
loadVars == <<loader, mode, lpc, fileIdx, latencyList, gasList, fileLog, merged,
              printed, mainOut>>
fnVars   == <<lst1, lst2, delta, frame, grouped>>
statVars == <<script, pc, factor, kwP, kwTable, kwCalls, dunnRan, posthoc,
              latency, tableCols>>
vars     == <<column, qcutResult,
              loader, mode, lpc, fileIdx, latencyList, gasList, fileLog, merged,
              printed, mainOut,
              lst1, lst2, delta, frame, grouped,
              script, pc, factor, kwP, kwTable, kwCalls, dunnRan, posthoc,
              latency, tableCols>>

Range(s) == {s[i] : i \in DOMAIN s}

(***************************************************************************)
(* Idle values: what a specification gives the variables it does not use.  *)
(***************************************************************************)
NoQcut == [status |-> "pending", labels |-> <<>>]

BinIdle ==
    /\ column = <<>>
    /\ qcutResult = NoQcut

NoMain == [status |-> "pending", empty |-> TRUE, message |-> "none",
           bound |-> 0, plotted |-> 0]

LoadIdle ==
    /\ loader = "none"
    /\ mode = "none"
    /\ lpc = "idle"
    /\ fileIdx = 0
    /\ latencyList = <<>>
    /\ gasList = <<>>
    /\ fileLog = <<>>
    /\ merged = <<>>
    /\ printed = <<>>
    /\ mainOut = NoMain

NoDelta == [status |-> "pending", num |-> 0, den |-> 1]

NoFrame == [hasUser |-> FALSE, rows |-> <<>>]
NoGrouped == [status |-> "pending", rows |-> <<>>]

GroupIdle ==
    /\ frame = NoFrame
    /\ grouped = NoGrouped

FnIdle ==
    /\ lst1 = <<>>
    /\ lst2 = <<>>
    /\ delta = NoDelta
    /\ GroupIdle

NoMatrix == <<>>
NoPosthoc == [factor |-> 0, ran |-> FALSE, matrix |-> NoMatrix, rows |-> <<>>]

StatIdle ==
    /\ script = "none"
    /\ pc = "idle"
    /\ factor = 0
    /\ kwP = <<>>
    /\ kwTable = <<>>
    /\ kwCalls = <<>>
    /\ dunnRan = {}
    /\ posthoc = NoPosthoc
    /\ latency = <<>>
    /\ tableCols = {}

(***************************************************************************)
(* QUINTILE BINNER                                                         *)
(*   pd.qcut(df[col], 5, labels=['Q1','Q2','Q3','Q4','Q5'])                *)
(* pandas computes the six cut points as the linearly interpolated         *)
(* quantiles 0, .2, .4, .6, .8, 1 of the column, raises ValueError ("Bin   *)
(* edges must be unique") when two of them coincide, and otherwise labels  *)
(* a value v with the first bin whose right edge is >= v (right-closed     *)
(* intervals, lowest edge included).  Cut points are kept multiplied by    *)
(* NumBins so that they stay integers.                                     *)
(***************************************************************************)
NumBins == 5
MaxN    == 6      \* longest column drawn
MaxVal  == 5      \* covariate values are drawn from 1..MaxVal

QLabels == <<"Q1", "Q2", "Q3", "Q4", "Q5">>

Columns == UNION {[1..n -> 1..MaxVal] : n \in 1..MaxN}

\* Mutant of KthSmallest: the order statistics are read off the column as it
\* comes, without sorting it.
KthSmallestUnsorted(col, k) == col[k + 1]

\* The k-th smallest value of col, k counted from 0 (the sorted column's entry k).
KthSmallest(col, k) ==
    CHOOSE v \in Range(col) :
        /\ Cardinality({i \in DOMAIN col : col[i] < v}) <= k
        /\ k < Cardinality({i \in DOMAIN col : col[i] <= v})

\* NumBins times the quantile i/NumBins of col, linear interpolation:
\* position i*(n-1)/NumBins in the sorted column.
QuantileEdge(col, i) ==
    LET num == i * (Len(col) - 1)
        lo  == num \div NumBins
        r   == num % NumBins
        xlo == KthSmallest(col, lo)
        xhi == IF r = 0 THEN xlo ELSE KthSmallest(col, lo + 1)
    IN  NumBins * xlo + r * (xhi - xlo)

\* The six cut points, each multiplied by NumBins.
BinEdges(col) ==
    <<QuantileEdge(col, 1), QuantileEdge(col, 2), QuantileEdge(col, 3),
      QuantileEdge(col, 4), QuantileEdge(col, 5)>> @@ (0 :> QuantileEdge(col, 0))

\* Mutant of EdgesUnique: only a degenerate range (lowest = highest cut point)
\* is refused.
EdgesUniqueEndsOnly(col) ==
    LET edges == BinEdges(col)
    IN  edges[0] # edges[NumBins]

\* duplicates='raise': no two cut points coincide.
EdgesUnique(col) ==
    LET edges == BinEdges(col)
    IN  \A i, j \in 0..NumBins : i # j => edges[i] # edges[j]

\* Mutant of BinOf: include_lowest forgotten, the smallest value falls in no
\* bin (label 0).
BinOfLowestExcluded(col, v) ==
    LET edges == BinEdges(col)
        inBin(i) == /\ NumBins * v <= edges[i]
                 /\ \A j \in 1..(i - 1) : NumBins * v > edges[j]
    IN  IF NumBins * v > edges[0] /\ \E i \in 1..NumBins : inBin(i)
        THEN CHOOSE i \in 1..NumBins : inBin(i)
        ELSE 0

\* Mutant of BinOf: the bins are numbered from the top, the largest values
\* fall in bin 1.
BinOfFromTop(col, v) ==
    LET edges == BinEdges(col)
        inBin(i) == /\ NumBins * v <= edges[i]
                 /\ \A j \in 1..(i - 1) : NumBins * v > edges[j]
    IN  IF \E i \in 1..NumBins : inBin(i)
        THEN NumBins + 1 - (CHOOSE i \in 1..NumBins : inBin(i))
        ELSE 0

\* searchsorted(bins, v, side='left'), with ids[v == bins[0]] = 1; a value
\* above the last cut point gets no label (0 stands for NaN).
BinOf(col, v) ==
    LET edges == BinEdges(col)
        inBin(i) == /\ NumBins * v <= edges[i]
                 /\ \A j \in 1..(i - 1) : NumBins * v > edges[j]
    IN  IF \E i \in 1..NumBins : inBin(i)
        THEN CHOOSE i \in 1..NumBins : inBin(i)
        ELSE 0

\* The position of row i when the rows are sorted by value, rows of equal
\* value in input order (rank(method='first')).
StableRank(col, i) ==
    Cardinality({j \in DOMAIN col :
                    col[j] < col[i] \/ (col[j] = col[i] /\ j <= i)})

RankColumn(col) == [i \in DOMAIN col |-> StableRank(col, i)]

\* Mutant of Qcut: the rows are binned by their stable rank, so that rows of
\* equal value on a boundary are split between the two bins by input order.
QcutByRank(col) ==
    IF EdgesUnique(RankColumn(col))
    THEN [status |-> "labelled",
          labels |-> [i \in DOMAIN col |->
                         BinOf(RankColumn(col), StableRank(col, i))]]
    ELSE [status |-> "raised", labels |-> <<>>]

\* Mutant of Qcut: duplicates='drop', coinciding cut points are tolerated.
QcutDropDuplicates(col) ==
    [status |-> "labelled",
     labels |-> [i \in DOMAIN col |-> BinOf(col, col[i])]]

Qcut(col) ==
    IF EdgesUnique(col)
    THEN [status |-> "labelled",
          labels |-> [i \in DOMAIN col |-> BinOf(col, col[i])]]
    ELSE [status |-> "raised", labels |-> <<>>]

InitBin ==
    /\ column \in Columns
    /\ qcutResult = NoQcut
    /\ LoadIdle
    /\ StatIdle
    /\ FnIdle

DoQcut ==
    /\ qcutResult.status = "pending"
    /\ qcutResult' = Qcut(column)
    /\ UNCHANGED <<column, loadVars, statVars, fnVars>>

NextBin == DoQcut

SpecBin == InitBin /\ [][NextBin]_vars

\* ---- helpers for the binner's claims
Binned == qcutResult.status # "pending"
Labelled == qcutResult.status = "labelled"
Raised == qcutResult.status = "raised"
Distinct(col) == Cardinality(Range(col))
BinSize(b) == Cardinality({i \in DOMAIN qcutResult.labels : qcutResult.labels[i] = b})
AllDistinct(col) == Distinct(col) = Len(col)

(***************************************************************************)
(* OMNIBUS TEST AND POST-HOC                                               *)
(* The five scripts that test: Latency_analysis_each_function.py           *)
(* ("EachFunction"), Latency_addition+selection_analysis_Phase1.py         *)
(* ("Phase1"), Latency_breach_penalty_analysis_Phase2.py ("Phase2"),       *)
(* Statistical_analysis_HighGasUsed.py ("StatHigh") and                    *)
(* Statistical_analysis_LowGasUsed.py ("StatLow").                         *)
(*                                                                         *)
(* scipy's kruskal and scikit_posthocs' posthoc_dunn are library calls:    *)
(* the p-values they return are drawn from KwPs and DunnOutcomes.  What    *)
(* the scripts do with them (rounding, correction, comparison with 0.05,   *)
(* which rows they emit) is modelled as written.  p-values are integers    *)
(* in units of 1e-7.                                                       *)
(***************************************************************************)
NumFactors == 3
Factors == 1..NumFactors
StatScripts == {"EachFunction", "Phase1", "Phase2", "StatHigh", "StatLow"}

PUnit == 10 * 1000 * 1000      \* p = 1.0
Alpha == 500000                \* p = 0.05
NoP   == PUnit + 1             \* no p-value yet
NaNP  == PUnit + 2             \* a p-value of nan: below no threshold

\* p-values kruskal may return: 1e-7, 0.0499996, 0.05, 0.9.
KwPs == {1, 499996, Alpha, 9000000}
\* Uncorrected pairwise p-values Dunn's test may return: 0.001, 0.01, 0.3.
RawPs == {10000, 100000, 3000000}

\* round(p, d) and f"{p:.df}": p rounded to a multiple of q (q = 10^(7-d)).
RoundTo(p, q) == ((p + (q \div 2)) \div q) * q

\* The unordered pairs of bins in the order of the nested loops
\*   for i in range(5): for j in range(i + 1, 5)
PairSet == {pr \in (1..NumBins) \X (1..NumBins) : pr[1] < pr[2]}
PairBefore(a, b) == a[1] < b[1] \/ (a[1] = b[1] /\ a[2] <= b[2])
PairSeq ==
    [k \in 1..Cardinality(PairSet) |->
        CHOOSE pr \in PairSet :
            Cardinality({q \in PairSet : PairBefore(q, pr)}) = k]
NumPairs == Len(PairSeq)

\* The matrices of uncorrected p-values drawn for one call of posthoc_dunn:
\* one value for all pairs but one.
DunnOutcomes ==
    {[pr \in PairSet |-> IF pr = sp THEN v ELSE b] :
        sp \in PairSet, v \in RawPs, b \in RawPs}

\* multipletests(..., method='bonferroni'): p times the number of comparisons,
\* clipped to 1.
Bonferroni(p) == IF NumPairs * p > PUnit THEN PUnit ELSE NumPairs * p

\* The p_adjust argument each script gives posthoc_dunn.
PAdjust(s, p) ==
    IF s \in {"StatHigh", "StatLow"} THEN p ELSE Bonferroni(p)

\* The p-value shown in the omnibus table / printed for a covariate.
ShownP(s, p) ==
    CASE p = NaNP     -> NaNP
      [] s = "Phase1" -> RoundTo(p, 10)                         \* round(p, 6)
      [] s = "Phase2" -> RoundTo(p, 100)                        \* :.5f
      [] OTHER        -> RoundTo(p, 1000)                       \* :.4f

\* The interpretation written next to it.
Interpretation(s, p) ==
    CASE s = "Phase2" -> "none"
      [] OTHER        -> IF p < Alpha THEN "significant" ELSE "not significant"

\* What the interpretation paragraph under the omnibus table says of
\* covariate f (1 gas price, 2 block size, 3 transaction count) once it is
\* written: StatHigh's paragraph is a fixed text, StatLow's is made from a
\* second kruskal call on the same groups.
ParagraphFlag(s, f) ==
    IF pc \notin {"gate", "done"} THEN "none"
    ELSE CASE s = "StatHigh" -> IF f = 2 THEN "not significant" ELSE "significant"
           [] s = "StatLow"  -> IF kwP[f] < Alpha THEN "significant"
                                ELSE "not significant"
           [] OTHER          -> "none"

\* Does the script go on to posthoc_dunn for covariate f.
GatePasses(s, f) ==
    CASE s = "EachFunction" -> TRUE
      [] s = "Phase1"       -> kwTable[f].p < Alpha
      [] OTHER              -> kwP[f] < Alpha

\* One row of the pairwise table.
PairRow(s, pr, raw) ==
    LET p == PAdjust(s, raw)
    IN  [pair          |-> pr,
         raw           |-> raw,
         p             |-> p,
         sig           |-> (p < Alpha),
         deltaComputed |-> (s \in {"Phase1", "Phase2"} \/ p < Alpha),
         effect        |-> IF s = "Phase2" \/ p < Alpha
                           THEN "delta" ELSE "Not significant"]

\* Mutant of PosthocRows: the matrix is read in the opposite order, row k
\* gets the p-value of the pair NumPairs + 1 - k.
PosthocRowsReversed(s, m) ==
    IF s = "EachFunction" THEN <<>>
    ELSE [k \in 1..NumPairs |->
             PairRow(s, PairSeq[k], m[PairSeq[NumPairs + 1 - k]])]

\* The pair rows a script builds from Dunn's matrix m; EachFunction only
\* prints the matrix.
PosthocRows(s, m) ==
    IF s = "EachFunction" THEN <<>>
    ELSE [k \in 1..NumPairs |-> PairRow(s, PairSeq[k], m[PairSeq[k]])]

TableFirst(s) == s \in {"Phase1", "StatHigh", "StatLow"}
Recomputes(s) == s \in {"StatHigh", "StatLow"}

NoRow == [p |-> NoP, note |-> "none"]

\* The columns of the table the Loader returned: the latency and the three
\* covariates.
LoadedCols == {<<"Latency (s)", 0>>} \cup {<<"covariate", f>> : f \in Factors}

\* The columns assigned on the way to the test of covariate f:
\*   df[quintile_col] = pd.qcut(df[factor_col], 5, labels=[...])
\* on the caller's table (no script works on a copy).  The main block of
\* Latency_analysis_each_function.py assigns the three of them before its
\* first test.
QuintileCols(s, f) ==
    IF s = "EachFunction" THEN {<<"quintile", g>> : g \in Factors}
    ELSE {<<"quintile", f>>}

Init ==
    /\ script \in StatScripts
    /\ pc = "kw"
    /\ factor = 1
    /\ kwP = [f \in Factors |-> NoP]
    /\ kwTable = [f \in Factors |-> NoRow]
    /\ kwCalls = [f \in Factors |-> 0]
    /\ dunnRan = {}
    /\ posthoc = NoPosthoc
    /\ latency = <<>>
    /\ tableCols = LoadedCols
    /\ BinIdle
    /\ LoadIdle
    /\ FnIdle

\* What the script does with the p-value p returned by kruskal(*groups) for
\* the covariate's quintile groups: the table row or printed line, and where
\* it goes next.
KruskalReturns(p) ==
    /\ kwP' = [kwP EXCEPT ![factor] = p]
    /\ kwTable' = [kwTable EXCEPT ![factor] =
                      [p |-> ShownP(script, p), note |-> Interpretation(script, p)]]
    /\ kwCalls' = [kwCalls EXCEPT ![factor] = @ + 1]
    /\ IF TableFirst(script)
       THEN IF factor < NumFactors
            THEN pc' = "kw" /\ factor' = factor + 1
            ELSE pc' = (IF script = "StatLow" THEN "interp" ELSE "gate") /\ factor' = 1
       ELSE pc' = "gate" /\ factor' = factor
    /\ tableCols' = tableCols \cup QuintileCols(script, factor)
    /\ UNCHANGED <<script, latency, dunnRan, posthoc, binVars, loadVars, fnVars>>

Kruskal ==
    /\ pc = "kw"
    /\ \E p \in KwPs : KruskalReturns(p)

\* StatLow's second loop: kruskal again, for the interpretation paragraph.
Interpret ==
    /\ pc = "interp"
    /\ kwCalls' = [kwCalls EXCEPT ![factor] = @ + 1]
    /\ IF factor < NumFactors
       THEN pc' = "interp" /\ factor' = factor + 1
       ELSE pc' = "gate" /\ factor' = 1
    /\ UNCHANGED <<script, latency, tableCols, kwP, kwTable, dunnRan, posthoc, binVars, loadVars, fnVars>>

AfterGate ==
    /\ IF factor < NumFactors
       THEN pc' = (IF TableFirst(script) THEN "gate" ELSE "kw") /\ factor' = factor + 1
       ELSE pc' = "done" /\ factor' = factor
    /\ kwCalls' = IF Recomputes(script)
                  THEN [kwCalls EXCEPT ![factor] = @ + 1] ELSE kwCalls

\* The covariate's post-hoc step when the script goes on to Dunn's test and
\* posthoc_dunn returns the matrix m.
DunnReturns(m, rows) ==
    /\ posthoc' = [factor |-> factor, ran |-> TRUE, matrix |-> m, rows |-> rows]
    /\ dunnRan' = dunnRan \cup {factor}
    /\ AfterGate
    /\ UNCHANGED <<script, latency, tableCols, kwP, kwTable, binVars, loadVars, fnVars>>

RunPosthoc ==
    /\ pc = "gate"
    /\ GatePasses(script, factor)
    /\ \E m \in DunnOutcomes : DunnReturns(m, PosthocRows(script, m))

\* ... and when it does not.
SkipPosthoc ==
    /\ pc = "gate"
    /\ ~GatePasses(script, factor)
    /\ posthoc' = [factor |-> factor, ran |-> FALSE, matrix |-> NoMatrix,
                   rows |-> <<>>]
    /\ AfterGate
    /\ UNCHANGED <<script, latency, tableCols, kwP, kwTable, dunnRan, binVars, loadVars, fnVars>>

Next == Kruskal \/ Interpret \/ RunPosthoc \/ SkipPosthoc

Spec == Init /\ [][Next]_vars

(***************************************************************************)
(* LOADER (process_service_data)                                           *)
(* Seven scripts define it.  Latency_analysis_each_function.py,            *)
(* Statistical_analysis_LowGasUsed.py and the two *_final.py scripts       *)
(* ("HighFinal", "LowFinal") share one body; Phase2 adds fall-backs;       *)
(* Phase1 and StatHigh read without try/except, and StatHigh does not      *)
(* call dropna on the merged table.                                        *)
(* A field holds 0 for a missing value (NaN).  One field, gas, stands for  *)
(* the three block-metadata columns.  A file holds at most one row; the    *)
(* Iteration of a row is never missing.                                    *)
(***************************************************************************)
MaxKey == 2       \* transaction hashes are drawn from 1..MaxKey

Loaders == {"EachFunction", "Phase1", "Phase2", "StatHigh", "StatLow",
            "HighFinal", "LowFinal"}
NoTry == {"Phase1", "StatHigh"}       \* bodies without try/except

\* The keyword arguments process_service_data accepts in each script.
Modes(l) == IF l \in NoTry THEN {"hash"} ELSE {"hash", "index"}

\* The scripts whose module-level code defines plot_combined_data, and how
\* often. A def statement binds the name when it is executed, in file order.
PlotDefs(l) ==
    CASE l \in {"HighFinal", "LowFinal"} -> 2
      [] l = "StatLow" -> 1
      [] OTHER -> 0

DefinedTwice == {l \in Loaders : PlotDefs(l) = 2}

\* The definition the name refers to once the statements above the loading
\* have run: the def of plot_combined_data that precedes it, if any.
BoundBeforeCall(l) == IF PlotDefs(l) > 0 THEN 1 ELSE 0

LatencyFiles == <<"latency_1.csv", "latency_2.csv">>
BlockFiles   == <<"block_1.csv", "block_2.csv">>

NA == 0
Present(x) == x # NA

LatRows   == [hash : 0..MaxKey, lat : 0..1]
BlockRows == [hash : 0..MaxKey, gas : 0..1]
Frames(rows) == {<<>>} \cup {<<r>> : r \in rows}

\* What a latency file can hold: whether it exists, which columns its header
\* has, and its rows.
LatencyFileContents ==
    [exists : BOOLEAN, hasLat : BOOLEAN, hasHash : BOOLEAN, hasIter : BOOLEAN,
     rows : Frames(LatRows)]

\* What a block file can hold.
BlockFileContents ==
    [exists : BOOLEAN, hasCols : BOOLEAN, rows : Frames(BlockRows)]

\* df.dropna(subset=['Transaction Hash'])
DropNaHash(rows) == SelectSeq(rows, LAMBDA r : Present(r.hash))

\* The 'UserIndex' of a row read from a file that has no such column.
NoCol == -1

\* The frame kept in index mode has no 'Transaction Hash' column. The files
\* drawn for the loop have no 'UserIndex' column either (files that disagree
\* on it are drawn in the index-based merge of files of several rows).
WithoutHash(rows) ==
    [i \in DOMAIN rows |-> [hash |-> NA, lat |-> rows[i].lat, user |-> NoCol]]

Kept(rows)  == [outcome |-> "loaded",  rows |-> rows]
Skipped     == [outcome |-> "skipped", rows |-> <<>>]
Missing     == [outcome |-> "missing", rows |-> <<>>]
RaisedError == [outcome |-> "raised",  rows |-> <<>>]

\* One pass of the loop over data_files.
LoadLatencyFile(l, m, f) ==
    IF ~f.exists THEN Missing
    ELSE IF l = "StatHigh" THEN
        \* dropna(subset=...) and df[[...]] raise KeyError, nothing catches it
        IF ~f.hasHash \/ ~f.hasLat THEN RaisedError
        ELSE Kept(DropNaHash(f.rows))
    ELSE IF l = "Phase1" THEN
        IF ~f.hasLat THEN Skipped
        ELSE IF ~f.hasHash THEN RaisedError
        ELSE Kept(f.rows)
    ELSE IF m = "index" THEN
        IF ~f.hasLat THEN Skipped
        ELSE IF f.hasIter THEN Kept(WithoutHash(f.rows))
        ELSE IF l = "Phase2" THEN Kept(WithoutHash(f.rows))
        ELSE Skipped       \* KeyError on 'Iteration', caught
    ELSE
        IF ~f.hasLat THEN Skipped
        ELSE IF ~f.hasHash THEN Skipped    \* KeyError caught / not appended
        ELSE Kept(DropNaHash(f.rows))

\* One pass of the loop over block_files.
LoadBlockFile(l, f) ==
    IF ~f.exists THEN Missing
    ELSE IF ~f.hasCols THEN (IF l \in NoTry THEN RaisedError ELSE Skipped)
    ELSE Kept(f.rows)

\* What the loop over data_files prints for the file: "not found" (the else
\* of os.path.exists), "no column" (latency column not found), "error" (the
\* except branch) or "none".
LatencyMessage(l, m, f) ==
    IF ~f.exists THEN (IF l = "StatHigh" THEN "none" ELSE "not found")
    ELSE IF l \in NoTry THEN "none"
    ELSE IF ~f.hasLat THEN "no column"
    ELSE IF m = "index" THEN
        (IF f.hasIter \/ l = "Phase2" THEN "none" ELSE "error")
    ELSE IF ~f.hasHash THEN (IF l = "Phase2" THEN "none" ELSE "error")
    ELSE "none"

\* What the loop over block_files prints for the file.
BlockMessage(l, f) ==
    IF ~f.exists THEN (IF l = "StatHigh" THEN "none" ELSE "not found")
    ELSE IF ~f.hasCols /\ l \notin NoTry THEN "error"
    ELSE "none"

\* pd.concat(list, ignore_index=True)
RECURSIVE ConcatFrames(_)
ConcatFrames(frames) ==
    IF frames = <<>> THEN <<>>
    ELSE Head(frames) \o ConcatFrames(Tail(frames))

MergedRow(g, r) == [hash |-> g.hash, gas |-> g.gas, lat |-> r.lat]

\* Mutant of HashMerge: the join key is forgotten (cross join).
RECURSIVE HashMergeNoKey(_, _)
HashMergeNoKey(gas, lat) ==
    IF gas = <<>> THEN <<>>
    ELSE [i \in DOMAIN lat |-> MergedRow(Head(gas), lat[i])]
            \o HashMergeNoKey(Tail(gas), lat)

\* pd.merge(gas, lat, on='Transaction Hash', how='inner'): for each row of
\* the left table in order, the rows of the right table with an equal key
\* (two missing keys are equal for merge).
RECURSIVE HashMerge(_, _)
HashMerge(gas, lat) ==
    IF gas = <<>> THEN <<>>
    ELSE LET g == Head(gas)
             matches == SelectSeq(lat, LAMBDA r : r.hash = g.hash)
         IN  [i \in DOMAIN matches |-> MergedRow(g, matches[i])]
                \o HashMerge(Tail(gas), lat)

\* Mutant of IndexMerge: the latency table is laid beside the block table
\* upside down.
IndexMergeReversed(gas, lat) ==
    LET n == IF Len(gas) > Len(lat) THEN Len(gas) ELSE Len(lat)
    IN  [i \in 1..n |->
            [hash |-> IF i <= Len(gas) THEN gas[i].hash ELSE NA,
             gas  |-> IF i <= Len(gas) THEN gas[i].gas ELSE NA,
             lat  |-> IF i <= Len(lat) THEN lat[Len(lat) + 1 - i].lat ELSE NA,
             user |-> IF i <= Len(lat) THEN lat[Len(lat) + 1 - i].user ELSE NoCol]]

\* pd.concat of the latency frames (join='outer'): the table has a
\* 'UserIndex' column as soon as one frame has it, and the rows of the frames
\* without it hold a missing value there.
HasUserColumn(lat) == \E i \in DOMAIN lat : lat[i].user # NoCol

UserAfterConcat(lat, i) ==
    IF ~HasUserColumn(lat) THEN NoCol
    ELSE IF i <= Len(lat) /\ lat[i].user # NoCol THEN lat[i].user
    ELSE NA

\* pd.concat([gas, lat], axis=1): rows paired by position, the shorter table
\* padded with missing values.
IndexMerge(gas, lat) ==
    LET n == IF Len(gas) > Len(lat) THEN Len(gas) ELSE Len(lat)
    IN  [i \in 1..n |->
            [hash |-> IF i <= Len(gas) THEN gas[i].hash ELSE NA,
             gas  |-> IF i <= Len(gas) THEN gas[i].gas ELSE NA,
             lat  |-> IF i <= Len(lat) THEN lat[i].lat ELSE NA,
             user |-> UserAfterConcat(lat, i)]]

\* Mutant of Complete: the 'UserIndex' column is left out of the test.
CompleteButUser(row) == Present(row.hash) /\ Present(row.gas) /\ Present(row.lat)

\* No field of the row is missing ('UserIndex' is a field of the tables
\* merged by position).
Complete(row) ==
    /\ Present(row.hash)
    /\ Present(row.gas)
    /\ Present(row.lat)
    /\ "user" \in DOMAIN row => Present(row.user)

\* .dropna() on the merged table
DropNa(rows) == SelectSeq(rows, LAMBDA r : Complete(r))

\* The merge step and the return.
MergeData(l, m, gasFrames, latFrames) ==
    LET gas == ConcatFrames(gasFrames)
        lat == ConcatFrames(latFrames)
    IN  IF gas = <<>> \/ lat = <<>> THEN <<>>          \* .empty
        ELSE IF l = "StatHigh" THEN HashMerge(gas, lat)
        ELSE IF m = "index" THEN DropNa(IndexMerge(gas, lat))
        ELSE DropNa(HashMerge(gas, lat))

InitLoad ==
    /\ loader \in Loaders
    /\ mode \in Modes(loader)
    /\ lpc = "latency"
    /\ fileIdx = 1
    /\ latencyList = <<>>
    /\ gasList = <<>>
    /\ fileLog = <<>>
    /\ merged = <<>>
    /\ printed = <<>>
    /\ mainOut = [NoMain EXCEPT !.bound = BoundBeforeCall(loader)]
    /\ BinIdle
    /\ StatIdle
    /\ FnIdle

\* Where the Loader goes after a file of a list of n files.
AfterFile(out, n, nextPhase) ==
    /\ fileLog' = Append(fileLog, out.outcome)
    /\ IF out.outcome = "raised"
       THEN lpc' = "raised" /\ fileIdx' = fileIdx
       ELSE IF fileIdx = n
            THEN lpc' = nextPhase /\ fileIdx' = 1
            ELSE lpc' = lpc /\ fileIdx' = fileIdx + 1

ReadLatencyFile ==
    /\ lpc = "latency"
    /\ \E f \in LatencyFileContents :
          LET out == LoadLatencyFile(loader, mode, f)
          IN  /\ latencyList' = IF out.outcome = "loaded"
                                THEN Append(latencyList, out.rows)
                                ELSE latencyList
              /\ printed' = Append(printed, LatencyMessage(loader, mode, f))
              /\ AfterFile(out, Len(LatencyFiles), "block")
    /\ UNCHANGED <<loader, mode, gasList, merged, mainOut, binVars, statVars, fnVars>>

ReadBlockFile ==
    /\ lpc = "block"
    /\ \E f \in BlockFileContents :
          LET out == LoadBlockFile(loader, f)
          IN  /\ gasList' = IF out.outcome = "loaded"
                            THEN Append(gasList, out.rows)
                            ELSE gasList
              /\ printed' = Append(printed, BlockMessage(loader, f))
              /\ AfterFile(out, Len(BlockFiles), "merge")
    /\ UNCHANGED <<loader, mode, latencyList, merged, mainOut, binVars, statVars, fnVars>>

\* What the merge step prints: "no data" when one of the two tables is
\* empty (Phase1 and StatHigh return the empty table without a word).
MergeMessage(l, gasFrames, latFrames) ==
    IF ConcatFrames(gasFrames) = <<>> \/ ConcatFrames(latFrames) = <<>>
    THEN (IF l \in NoTry THEN "none" ELSE "no data")
    ELSE "none"

Merge ==
    /\ lpc = "merge"
    /\ merged' = MergeData(loader, mode, gasList, latencyList)
    /\ printed' = Append(printed, MergeMessage(loader, gasList, latencyList))
    /\ lpc' = "done"
    /\ UNCHANGED <<loader, mode, fileIdx, latencyList, gasList, fileLog,
                   mainOut, binVars, statVars, fnVars>>

\* Scripts that load two services and test pd.concat([df_1, df_2]).empty;
\* StatHigh loads one, EachFunction tests each loaded table on its own.
TwoTables == Loaders \ {"StatHigh", "EachFunction"}

\* The module-level code after the Loader returned: the test on .empty, the
\* analysis (binning, tests, report, plots) or the no-data message. The call
\* plot_combined_data(combined_data) runs the body the name is bound to at
\* that time.
MainOutcome(l, isEmpty) ==
    [status  |-> IF isEmpty THEN "skipped" ELSE "analysed",
     empty   |-> isEmpty,
     message |-> IF isEmpty /\ l # "EachFunction" THEN "no data" ELSE "none",
     bound   |-> mainOut.bound,
     plotted |-> IF isEmpty THEN 0 ELSE mainOut.bound]

MainGate ==
    /\ lpc = "done"
    /\ \E otherEmpty \in (IF loader \in TwoTables THEN BOOLEAN ELSE {TRUE}) :
          mainOut' = MainOutcome(loader, merged = <<>> /\ otherEmpty)
    /\ lpc' = "exit"
    /\ UNCHANGED <<loader, mode, fileIdx, latencyList, gasList, fileLog,
                   merged, printed, binVars, statVars, fnVars>>

\* The second def plot_combined_data statement of the *_final scripts, the
\* last statement of the file: it rebinds the name after the if/else that
\* holds the plotting call has run.
Redefine ==
    /\ lpc = "exit"
    /\ loader \in DefinedTwice
    /\ mainOut' = [mainOut EXCEPT !.bound = 2]
    /\ lpc' = "end"
    /\ UNCHANGED <<loader, mode, fileIdx, latencyList, gasList, fileLog,
                   merged, printed, binVars, statVars, fnVars>>

NextLoad == ReadLatencyFile \/ ReadBlockFile \/ Merge \/ MainGate \/ Redefine

SpecLoad == InitLoad /\ [][NextLoad]_vars

(***************************************************************************)
(* THE INDEX-BASED MERGE OF FILES OF SEVERAL ROWS                          *)
(* The merge step of process_service_data(..., index_based=True) after     *)
(* both loops have kept a frame for every file.  Each value names the row  *)
(* it was read from: row j of file k holds Tag(k, j).                      *)
(***************************************************************************)
MaxPerFile == 2   \* rows of the longest file

Tag(k, j) == 10 * k + j
FileOf(t) == t \div 10

\* The frames kept from latency file k after grouping, from a file with a
\* 'UserIndex' column (every row has a user) or without one ...
IndexLatFrames(k) ==
    UNION {{[j \in 1..n |-> [hash |-> NA, lat |-> Tag(k, j), user |-> u]] :
                u \in {NoCol, 1}} : n \in 0..MaxPerFile}

\* ... and from block file k, where a 'Transaction Hash' can be missing.
IndexBlockFrames(k) ==
    UNION {{[j \in 1..n |-> [hash |-> h[j], gas |-> Tag(k, j)]] :
                h \in [1..n -> {NA, 1}]} : n \in 0..MaxPerFile}

InitIndex ==
    /\ loader \in Loaders \ NoTry
    /\ mode = "index"
    /\ lpc = "merge"
    /\ fileIdx = 1
    /\ \E l1 \in IndexLatFrames(1), l2 \in IndexLatFrames(2) :
          latencyList = <<l1, l2>>
    /\ \E b1 \in IndexBlockFrames(1), b2 \in IndexBlockFrames(2) :
          gasList = <<b1, b2>>
    /\ fileLog = <<"loaded", "loaded", "loaded", "loaded">>
    /\ printed = <<"none", "none", "none", "none">>
    /\ merged = <<>>
    /\ mainOut = [NoMain EXCEPT !.bound = BoundBeforeCall(loader)]
    /\ BinIdle
    /\ StatIdle
    /\ FnIdle

NextIndex == Merge \/ MainGate \/ Redefine

SpecIndex == InitIndex /\ [][NextIndex]_vars

(***************************************************************************)
(* CLIFF'S DELTA (cliffs_delta of Statistical_analysis_HighGasUsed.py and  *)
(* Statistical_analysis_LowGasUsed.py)                                     *)
(* The quotient (n_concordant - n_discordant) / (n1 * n2) is kept as the   *)
(* pair num, den.  A latency of 0 stands for NaN: every comparison with it *)
(* is false.  n1 * n2 = 0 makes the division raise ZeroDivisionError.      *)
(***************************************************************************)
MaxGroup == 3     \* longest group drawn
MaxLat   == 2     \* latencies are drawn from 1..MaxLat, and NaN

Groups == UNION {[1..n -> 0..MaxLat] : n \in 0..MaxGroup}

Gt(a, b) == Present(a) /\ Present(b) /\ a > b
\* Mutant of Lt: a tie counts as a pair with x1 < x2.
LtOrEqual(a, b) == Present(a) /\ Present(b) /\ a <= b

Lt(a, b) == Present(a) /\ Present(b) /\ a < b

\* Mutant of AllPairs: the lists are paired element by element (zip).
AllPairsZip(l1, l2) ==
    [k \in 1..(IF Len(l1) < Len(l2) THEN Len(l1) ELSE Len(l2)) |-> <<l1[k], l2[k]>>]

\* [(x1, x2) for x1 in lst1 for x2 in lst2]
AllPairs(l1, l2) ==
    [k \in 1..(Len(l1) * Len(l2)) |->
        <<l1[((k - 1) \div Len(l2)) + 1], l2[((k - 1) % Len(l2)) + 1]>>]

\* sum(1 for x1, x2 in all_pairs if x1 > x2), and the same with <
RECURSIVE CountPairs(_, _)
CountPairs(pairs, rel) ==
    IF pairs = <<>> THEN 0
    ELSE LET x1 == Head(pairs)[1]
             x2 == Head(pairs)[2]
             hit == IF rel = ">" THEN Gt(x1, x2) ELSE Lt(x1, x2)
         IN  (IF hit THEN 1 ELSE 0) + CountPairs(Tail(pairs), rel)

CliffsDelta(l1, l2) ==
    LET n1 == Len(l1)
        n2 == Len(l2)
        all_pairs == AllPairs(l1, l2)
        n_concordant == CountPairs(all_pairs, ">")
        n_discordant == CountPairs(all_pairs, "<")
    IN  IF n1 * n2 = 0
        THEN [status |-> "raised", num |-> 0, den |-> 1]
        ELSE [status |-> "returned", num |-> n_concordant - n_discordant,
              den |-> n1 * n2]

InitDelta ==
    /\ lst1 \in Groups
    /\ lst2 \in Groups
    /\ delta = NoDelta
    /\ GroupIdle
    /\ BinIdle
    /\ LoadIdle
    /\ StatIdle

CallCliffsDelta ==
    /\ delta.status = "pending"
    /\ delta' = CliffsDelta(lst1, lst2)
    /\ UNCHANGED <<lst1, lst2, frame, grouped, binVars, loadVars, statVars>>

NextDelta == CallCliffsDelta

SpecDelta == InitDelta /\ [][NextDelta]_vars

(***************************************************************************)
(* INDEX-MODE GROUPING (process_service_data with index_based=True)        *)
(* df.groupby(['Iteration', 'UserIndex']).first().reset_index(), or        *)
(* groupby(['Iteration']) when the file has no 'UserIndex' column.  A row  *)
(* is [iter, user, lat]; 0 stands for NaN, and user is NaN throughout when *)
(* the column is absent.  GroupBy.first() gives, for every key and every   *)
(* other column, the first value of the column in the group that is not    *)
(* NaN; rows whose key has a NaN form no group; the result is sorted by    *)
(* key.                                                                    *)
(***************************************************************************)
MaxRows == 3      \* longest frame drawn
Users == {1, 2}

IndexRows(hasUser) ==
    [iter : 0..MaxKey, user : (IF hasUser THEN Users ELSE {NA}), lat : 0..MaxLat]

IndexFrames ==
    UNION {{[hasUser |-> h, rows |-> r] :
               r \in UNION {[1..n -> IndexRows(h)] : n \in 0..MaxRows}} :
           h \in BOOLEAN}

KeyOf(r) == <<r.iter, r.user>>
KeyLess(a, b) == a[1] < b[1] \/ (a[1] = b[1] /\ a[2] < b[2])

\* The keys that form a group (dropna=True: no NaN in the key).
GroupKeys(f) ==
    {KeyOf(f.rows[i]) : i \in {j \in DOMAIN f.rows : Present(f.rows[j].iter)}}

Members(f, k) == {i \in DOMAIN f.rows : KeyOf(f.rows[i]) = k}

Min(S) == CHOOSE x \in S : \A y \in S : x <= y

\* first() of the latency column within group k.
FirstLatency(f, k) ==
    LET valid == {i \in Members(f, k) : Present(f.rows[i].lat)}
    IN  IF valid = {} THEN NA ELSE f.rows[Min(valid)].lat

\* The group keys in ascending order (sort=True).
SortedKeys(f) ==
    [n \in 1..Cardinality(GroupKeys(f)) |->
        CHOOSE k \in GroupKeys(f) :
            Cardinality({q \in GroupKeys(f) : KeyLess(q, k)}) = n - 1]

GroupByFirst(f) ==
    [status |-> "grouped",
     rows   |-> [n \in DOMAIN SortedKeys(f) |->
                    [iter |-> SortedKeys(f)[n][1],
                     user |-> SortedKeys(f)[n][2],
                     lat  |-> FirstLatency(f, SortedKeys(f)[n])]]]

InitGroup ==
    /\ frame \in IndexFrames
    /\ grouped = NoGrouped
    /\ lst1 = <<>>
    /\ lst2 = <<>>
    /\ delta = NoDelta
    /\ BinIdle
    /\ LoadIdle
    /\ StatIdle

DoGroupBy ==
    /\ grouped.status = "pending"
    /\ grouped' = GroupByFirst(frame)
    /\ UNCHANGED <<frame, lst1, lst2, delta, binVars, loadVars, statVars>>

NextGroup == DoGroupBy

SpecGroup == InitGroup /\ [][NextGroup]_vars

(***************************************************************************)
(* THE TESTS ON A GIVEN TABLE                                              *)
(* The analysis of the five testing scripts run on a table whose covariate *)
(* columns all grow strictly with the row number and whose latency is, on  *)
(* each block of GroupLen rows, either constant or 1, 2, ..., GroupLen.    *)
(* Here the results of kruskal                                             *)
(* and posthoc_dunn are computed from the data: the H statistic and        *)
(* Dunn's z^2 exactly, as fractions, and the p-value through the           *)
(* chi-square (4 degrees of freedom) and normal quantiles it is compared   *)
(* with.  The p-value kept is one of KwPs / RawPs on the same side of      *)
(* every threshold a script uses.                                          *)
(***************************************************************************)
GroupLen == 5     \* rows per block
LatValues == {1, 2, 3, 4, 5, 100}
Spread    == 0    \* the block 1, 2, ..., GroupLen
TableLen == NumBins * GroupLen

Covariate == [i \in 1..TableLen |-> i]

NonDecreasing(v) == \A i \in 1..(NumBins - 1) : v[i] <= v[i + 1]

\* The latency column made of the blocks v[1], ..., v[NumBins].
BlockLatency(v) ==
    [i \in 1..TableLen |->
        LET b == v[((i - 1) \div GroupLen) + 1]
        IN  IF b = Spread THEN ((i - 1) % GroupLen) + 1 ELSE b]

LatencyColumns ==
    {BlockLatency(v) :
        v \in {w \in [1..NumBins -> LatValues \cup {Spread}] : NonDecreasing(w)}}

\* A second, short table: the covariate 1, 2, 2, 3, 4, 5, 6 has the distinct
\* quantile edges 1, 2, 2.4, 3.6, 4.8, 6, and no value in (2, 2.4]: pd.qcut
\* labels it and leaves Q2 without a row.
GappedCovariate == <<1, 2, 2, 3, 4, 5, 6>>
\* Its latency column is 1 on the first k rows and 2 on the others.
GappedLatencies ==
    {[i \in DOMAIN GappedCovariate |-> IF i <= k THEN 1 ELSE 2] :
        k \in 0..Len(GappedCovariate)}

\* The tables tested: the covariate column and the latency column.
Tables ==
    {[covariate |-> Covariate, latency |-> l] : l \in LatencyColumns}
        \cup {[covariate |-> GappedCovariate, latency |-> l] : l \in GappedLatencies}

\* data[data['quintile'] == q]['Latency (s)']: the latencies of the rows
\* labelled q, in row order.
RECURSIVE SelectRows(_, _, _, _)
SelectRows(lat, labels, q, i) ==
    IF i > Len(lat) THEN <<>>
    ELSE (IF labels[i] = q THEN <<lat[i]>> ELSE <<>>)
             \o SelectRows(lat, labels, q, i + 1)

QuintileGroups(lat, labels) ==
    [q \in 1..NumBins |-> SelectRows(lat, labels, q, 1)]

\* ---- fractions
Abs(n) == IF n < 0 THEN -n ELSE n

RECURSIVE Gcd(_, _)
Gcd(a, b) == IF b = 0 THEN a ELSE Gcd(b, a % b)

\* n / d in lowest terms, d > 0.
Rat(n, d) ==
    LET g == Gcd(Abs(n), d)
    IN  [n |-> n \div g, d |-> d \div g]

RatAdd(a, b) == Rat(a.n * b.d + b.n * a.d, a.d * b.d)
RatMul(a, b) ==
    LET x == Rat(a.n, b.d)
        y == Rat(b.n, a.d)
    IN  [n |-> x.n * y.n, d |-> x.d * y.d]
RatInv(a) == IF a.n < 0 THEN [n |-> -a.d, d |-> -a.n] ELSE [n |-> a.d, d |-> a.n]

\* floor(r / d * 10^digits), 0 <= r < d, digit by digit.
RECURSIVE Scaled(_, _, _)
Scaled(r, d, digits) ==
    IF digits = 0 THEN 0
    ELSE ((10 * r) \div d) * 10^(digits - 1) + Scaled((10 * r) % d, d, digits - 1)

\* The fraction a >= 0 in units of 1e-6, rounded down.
ToMicro(a) == (a.n \div a.d) * 1000000 + Scaled(a.n % a.d, a.d, 6)

\* ---- ranks
RECURSIVE Concat(_, _)
Concat(groups, q) ==
    IF q > Len(groups) THEN <<>> ELSE groups[q] \o Concat(groups, q + 1)

\* Twice rankdata's average rank of x among all.
Rank2(x, all) ==
    2 * Cardinality({k \in DOMAIN all : all[k] < x})
      + Cardinality({k \in DOMAIN all : all[k] = x}) + 1

RECURSIVE RankSum2(_, _)
RankSum2(g, all) ==
    IF g = <<>> THEN 0 ELSE Rank2(Head(g), all) + RankSum2(Tail(g), all)

\* The sum of t^3 - t over the groups of t tied values: each of the t values
\* contributes t^2 - 1.
RECURSIVE TieSum(_, _)
TieSum(all, k) ==
    IF k > Len(all) THEN 0
    ELSE LET t == Cardinality({j \in DOMAIN all : all[j] = all[k]})
         IN  (t * t - 1) + TieSum(all, k + 1)

\* tiecorrect(ranked): 1 - sum(t^3 - t) / (n^3 - n).
TieCorrect(all) ==
    LET n == Len(all)
    IN  Rat((n * n * n - n) - TieSum(all, 1), n * n * n - n)

\* ---- scipy.stats.kruskal
\* ssbn: the sum over the groups of (rank sum)^2 / size.
RECURSIVE Ssbn(_, _, _)
Ssbn(groups, all, q) ==
    IF q > Len(groups) THEN Rat(0, 1)
    ELSE LET r2 == RankSum2(groups[q], all)
         IN  RatAdd(Rat(r2 * r2, 4 * Len(groups[q])), Ssbn(groups, all, q + 1))

\* h = (12 / (n (n + 1)) * ssbn - 3 (n + 1)) / ties
KruskalH(groups) ==
    LET all == Concat(groups, 1)
        n   == Len(all)
        h0  == RatAdd(RatMul(Rat(12, n * (n + 1)), Ssbn(groups, all, 1)),
                      Rat(-3 * (n + 1), 1))
    IN  RatMul(h0, RatInv(TieCorrect(all)))

\* chi2.sf(h, 4) < 0.05 exactly when h > 9.487729, and < 0.0499995 (the
\* p-values round(p, 6) keeps below 0.05) when h > 9.487753; in units of 1e-6.
Chi2Crit05      == 9487729
Chi2Crit0499995 == 9487753
\* The same for chi2.sf(h, 3), the test of four groups: 7.814727, 7.814750.
Chi2Crit05Df3      == 7814727
Chi2Crit0499995Df3 == 7814750

HasEmptyGroup(groups) == \E q \in DOMAIN groups : groups[q] = <<>>

\* Whether the groups handed to kruskal are only the quintiles that have
\* rows.  Phase1 and Phase2 iterate groupby(quintile_col, observed=False):
\* all five, empty ones included.  each_function takes the labels from
\* combined_data[group_column].unique(): only those that occur.  StatHigh
\* and StatLow iterate groupby(quintile_col) with the default of observed,
\* which is False or True with the pandas release.
ObservedOnly(s) ==
    CASE s = "EachFunction" -> {TRUE}
      [] s \in {"StatHigh", "StatLow"} -> BOOLEAN
      [] OTHER -> {FALSE}

NonEmptyGroups(groups) == SelectSeq(groups, LAMBDA g : g # <<>>)

\* The groups handed to kruskal when only the observed ones are (o) or not.
HandedToKruskal(groups, o) == IF o THEN NonEmptyGroups(groups) ELSE groups

\* The ways script s can group a table labelled with labels: one when no
\* quintile is empty.
HasEmptyQuintile(labels) ==
    \E q \in 1..NumBins : \A i \in DOMAIN labels : labels[i] # q

Groupings(s, labels) == IF HasEmptyQuintile(labels) THEN ObservedOnly(s) ELSE {FALSE}
AllIdentical(groups) == TieCorrect(Concat(groups, 1)).n = 0

\* kruskal raises ValueError('All numbers are identical in kruskal') when
\* the tie correction is 0 ...
KruskalRaisesOn(groups) == ~HasEmptyGroup(groups) /\ AllIdentical(groups)

\* ... or, in the releases that do not raise, returns nan; an empty group
\* gives nan too.  Otherwise the p-value is the one of KwPs on the same side
\* of both thresholds as chi2.sf(h, 4).
KruskalPs(groups) ==
    IF HasEmptyGroup(groups) \/ AllIdentical(groups) THEN {NaNP}
    ELSE LET h == ToMicro(KruskalH(groups))
             full == Len(groups) = NumBins      \* else four groups
         IN  IF h > (IF full THEN Chi2Crit0499995 ELSE Chi2Crit0499995Df3) THEN {1}
             ELSE IF h > (IF full THEN Chi2Crit05 ELSE Chi2Crit05Df3) THEN {499996}
             ELSE {9000000}

\* ---- scikit_posthocs.posthoc_dunn
\* z^2 of the pair <<a, b>>:
\*   (mean rank a - mean rank b)^2 / ((n (n + 1) / 12 - ties) (1/na + 1/nb)),
\*   ties = sum(t^3 - t) / (12 (n - 1)).
DunnVariance(groups, pr) ==
    LET all == Concat(groups, 1)
        n   == Len(all)
        A   == RatAdd(Rat(n * (n + 1), 12), Rat(-TieSum(all, 1), 12 * (n - 1)))
        B   == RatAdd(Rat(1, Len(groups[pr[1]])), Rat(1, Len(groups[pr[2]])))
    IN  RatMul(A, B)

DunnZ2(groups, pr) ==
    LET all  == Concat(groups, 1)
        diff == RatAdd(Rat(RankSum2(groups[pr[1]], all), 2 * Len(groups[pr[1]])),
                       Rat(-RankSum2(groups[pr[2]], all), 2 * Len(groups[pr[2]])))
    IN  RatMul(RatMul(diff, diff), RatInv(DunnVariance(groups, pr)))

\* 2 * norm.sf(|z|) < 0.05 exactly when z^2 > 3.841458, and < 0.005 (below
\* 0.05 after Bonferroni's correction for 10 pairs) when z^2 > 7.879438; in
\* units of 1e-6.
Z2Crit05  == 3841458
Z2Crit005 == 7879438

\* The uncorrected p-value of the pair: below 0.005, below 0.05, or not; nan
\* when the variance is 0.
DunnP(groups, pr) ==
    IF DunnVariance(groups, pr).n = 0 THEN NaNP
    ELSE LET z2 == ToMicro(DunnZ2(groups, pr))
         IN  IF z2 > Z2Crit005 THEN 10000
             ELSE IF z2 > Z2Crit05 THEN 100000
             ELSE 3000000

\* The matrix has no row and no column for a label that does not occur
\* (posthoc_dunn takes the groups from the labels of the table).
DunnMatrixObserved(groups) ==
    [pr \in PairSet |->
        IF groups[pr[1]] = <<>> \/ groups[pr[2]] = <<>> THEN NoP
        ELSE DunnP(groups, pr)]

DunnMatrix(groups) == [pr \in PairSet |-> DunnP(groups, pr)]

\* ---- the scripts on the table
TableGroups == QuintileGroups(latency, qcutResult.labels)

\* Mutant of DataRows: the two groups are handed to cliffs_delta in the
\* opposite order.
DataRowsSwapped(s, m, groups) ==
    LET rows == PosthocRows(s, m)
    IN  [k \in DOMAIN rows |->
            [pair          |-> rows[k].pair,
             raw           |-> rows[k].raw,
             p             |-> rows[k].p,
             sig           |-> rows[k].sig,
             deltaComputed |-> rows[k].deltaComputed,
             effect        |-> rows[k].effect,
             delta         |-> IF rows[k].deltaComputed
                               THEN CliffsDelta(groups[rows[k].pair[2]],
                                                groups[rows[k].pair[1]])
                               ELSE NoDelta]]

\* The pair rows with the effect size the script computes for them.
DataRows(s, m, groups) ==
    LET rows == PosthocRows(s, m)
    IN  [k \in DOMAIN rows |->
            [pair          |-> rows[k].pair,
             raw           |-> rows[k].raw,
             p             |-> rows[k].p,
             sig           |-> rows[k].sig,
             deltaComputed |-> rows[k].deltaComputed,
             effect        |-> rows[k].effect,
             delta         |-> IF rows[k].deltaComputed
                               THEN CliffsDelta(groups[rows[k].pair[1]],
                                                groups[rows[k].pair[2]])
                               ELSE NoDelta]]

InitData ==
    /\ script \in StatScripts
    /\ pc = "bin"
    /\ factor = 1
    /\ kwP = [f \in Factors |-> NoP]
    /\ kwTable = [f \in Factors |-> NoRow]
    /\ kwCalls = [f \in Factors |-> 0]
    /\ dunnRan = {}
    /\ posthoc = NoPosthoc
    /\ \E t \in Tables : latency = t.latency /\ column = t.covariate
    /\ tableCols = LoadedCols
    /\ qcutResult = NoQcut
    /\ LoadIdle
    /\ FnIdle

\* pd.qcut of the covariate; every covariate of the table gets these labels.
DataQcut ==
    /\ pc = "bin"
    /\ qcutResult' = Qcut(column)
    /\ pc' = IF qcutResult'.status = "labelled" THEN "kw" ELSE "raised"
    /\ tableCols' = IF qcutResult'.status = "labelled"
                    THEN tableCols \cup QuintileCols(script, factor) ELSE tableCols
    /\ UNCHANGED <<script, latency, factor, kwP, kwTable, kwCalls, dunnRan,
                   posthoc, column, loadVars, fnVars>>

DataKruskal ==
    /\ pc = "kw"
    /\ \E o \in Groupings(script, qcutResult.labels) :
          \E p \in KruskalPs(HandedToKruskal(TableGroups, o)) : KruskalReturns(p)

\* The ValueError is caught nowhere: the script ends.
DataKruskalRaises ==
    /\ pc = "kw"
    /\ \E o \in Groupings(script, qcutResult.labels) :
          KruskalRaisesOn(HandedToKruskal(TableGroups, o))
    /\ pc' = "raised"
    /\ kwCalls' = [kwCalls EXCEPT ![factor] = @ + 1]
    /\ tableCols' = tableCols \cup QuintileCols(script, factor)
    /\ UNCHANGED <<script, latency, factor, kwP, kwTable, dunnRan, posthoc,
                   binVars, loadVars, fnVars>>

DataPosthoc ==
    /\ pc = "gate"
    /\ GatePasses(script, factor)
    /\ LET m == IF HasEmptyQuintile(qcutResult.labels)
                 THEN DunnMatrixObserved(TableGroups)
                 ELSE DunnMatrix(TableGroups)
       IN  DunnReturns(m, DataRows(script, m, TableGroups))

NextData ==
    \/ DataQcut
    \/ DataKruskal
    \/ DataKruskalRaises
    \/ Interpret
    \/ DataPosthoc
    \/ SkipPosthoc

SpecData == InitData /\ [][NextData]_vars

(***************************************************************************)
(* CLAIMS ABOUT THE TESTS AND THE POST-HOC TABLE (checked under Spec)      *)
(***************************************************************************)
PosthocRowSet == {posthoc.rows[k] : k \in DOMAIN posthoc.rows}

\* C1: in every script and for every covariate, posthoc_dunn is called only
\* when that covariate's Kruskal-Wallis p-value is below 0.05.
C1_DunnOnlyWhenSignificant ==
    \A f \in dunnRan : kwP[f] < Alpha

\* C2: a pair whose Bonferroni-corrected post-hoc p-value is not below 0.05
\* has no Cliff's delta computed and carries the "Not significant" marker;
\* a numeric effect size appears only for pairs with corrected p < 0.05.
C2_NoDeltaForNonSignificantPair ==
    \A r \in PosthocRowSet :
        /\ Bonferroni(r.raw) >= Alpha =>
              (~r.deltaComputed /\ r.effect = "Not significant")
        /\ r.effect = "delta" => Bonferroni(r.raw) < Alpha

\* C3: every pairwise p-value a script compares against 0.05 is the
\* Bonferroni correction, over the 10 pairs, of the p-value of Dunn's test.
C3_ComparedPIsBonferroni ==
    \A r \in PosthocRowSet : r.p = Bonferroni(r.raw)

(***************************************************************************)
(* CLAIMS ABOUT THE QUINTILE BINNER (checked under SpecBin)                *)
(***************************************************************************)
Bins == 1..NumBins
Balanced == \A a, b \in Bins : BinSize(a) - BinSize(b) <= 1

C5_FewDistinctRaises ==
    (Binned /\ Distinct(column) < NumBins) => Raised

\* C5 amended: a column of at least 5 records with fewer than 4 distinct
\* values always makes the binner fail.
C5_FewerThanFourDistinctRaises ==
    (Binned /\ Len(column) >= NumBins /\ Distinct(column) < NumBins - 1) => Raised

C5_Witness ==
    /\ Raised
    /\ Len(column) = 6
    /\ Distinct(column) = 3

\* C6 as stated: a column with exactly 5 distinct values, whatever their
\* multiplicities, is labelled and every bin receives a record.
C6_FiveDistinctFillsAllBins ==
    (Binned /\ Distinct(column) = NumBins) =>
        (Labelled /\ \A b \in Bins : BinSize(b) >= 1)

\* C6 amended: a column of exactly 5 records with 5 distinct values is
\* labelled and every bin receives exactly one record.
C6_FiveDistinctOnceEachFillsAllBins ==
    (Binned /\ Distinct(column) = NumBins /\ Len(column) = NumBins) =>
        (Labelled /\ \A b \in Bins : BinSize(b) = 1)

C6_Witness ==
    /\ Labelled
    /\ column = <<3, 1, 5, 2, 4>>
    /\ qcutResult.labels = <<3, 1, 5, 2, 4>>

\* C7: when every value of the column is equal the binner raises; it returns
\* no labelling.
C7_AllEqualRaises ==
    (Binned /\ Distinct(column) = 1) => Raised

C7_Witness ==
    /\ Raised
    /\ Len(column) = 4
    /\ Distinct(column) = 1

(***************************************************************************)
(* CLAIMS ABOUT THE LOADER (checked under SpecLoad)                        *)
(***************************************************************************)
Returned == lpc = "done"
GasTable == ConcatFrames(gasList)
LatencyTable == ConcatFrames(latencyList)
Hashes(rows) == {rows[i].hash : i \in DOMAIN rows} \ {NA}
MatchedHashes == Hashes(GasTable) \cap Hashes(LatencyTable)
HashOnce(rows) ==
    \A i, j \in DOMAIN rows :
        (Present(rows[i].hash) /\ rows[i].hash = rows[j].hash) => i = j
NoMissingValue ==
    /\ \A i \in DOMAIN GasTable : Present(GasTable[i].gas)
    /\ \A i \in DOMAIN LatencyTable : Present(LatencyTable[i].lat)
ExactlyTheMatched ==
    /\ Len(merged) = Cardinality(MatchedHashes)
    /\ {merged[i].hash : i \in DOMAIN merged} = MatchedHashes

\* C8 as stated: in transaction-hash mode the merged table holds exactly one
\* record per hash present on both sides, K records for K matched hashes: no
\* unmatched row appears and no matched row is lost.
C8_InnerJoinYieldsMatched ==
    (Returned /\ mode = "hash") => ExactlyTheMatched

\* C8 amended: in transaction-hash mode, when every hash occurs at most once
\* in each table and no row has a missing latency or block value, the merged
\* table holds exactly one record per hash present on both sides.
C8_InnerJoinYieldsMatchedWhenClean ==
    (/\ Returned
     /\ mode = "hash"
     /\ HashOnce(GasTable)
     /\ HashOnce(LatencyTable)
     /\ NoMissingValue) => ExactlyTheMatched

C8_Witness ==
    /\ Returned
    /\ mode = "hash"
    /\ HashOnce(GasTable)
    /\ HashOnce(LatencyTable)
    /\ NoMissingValue
    /\ Len(GasTable) = 2
    /\ Len(LatencyTable) = 2
    /\ Cardinality(MatchedHashes) = 1
    /\ Len(merged) = 1

\* C9: in every script no record of the table the Loader returns has a
\* missing value in any field.
C9_NoMissingFieldInMerged ==
    Returned => \A i \in DOMAIN merged : Complete(merged[i])

\* C10: in every script's Loader a file that exists but lacks an expected
\* column is skipped and the Loader does not raise.
C10_MissingColumnNeverRaises ==
    /\ lpc # "raised"
    /\ \A i \in DOMAIN fileLog : fileLog[i] # "raised"

Last(s) == s[Len(s)]
ReadMissingFile ==
    /\ Len(fileLog') = Len(fileLog) + 1
    /\ Last(fileLog') = "missing"

\* C11: in every script's Loader a file path that does not exist produces a
\* log message, contributes no rows, and the Loader goes on with the rest of
\* the list.
C11_MissingFileLoggedAndSkipped ==
    [][ReadMissingFile =>
          /\ Last(printed') = "not found"
          /\ latencyList' = latencyList
          /\ gasList' = gasList
          /\ lpc' \in {"latency", "block", "merge"}]_vars

\* C12: when the combined table is empty the script runs no analysis stage
\* and reports the no-data condition (from the Loader's merge step or from
\* the module-level code).
C12_EmptyTableOnlyReported ==
    (mainOut.status # "pending" /\ mainOut.empty) =>
        /\ mainOut.status = "skipped"
        /\ (mainOut.message = "no data" \/ Last(printed) = "no data")

(***************************************************************************)
(* CLAIMS ABOUT CLIFF'S DELTA (checked under SpecDelta)                    *)
(***************************************************************************)
IndexPairs == (DOMAIN lst1) \X (DOMAIN lst2)
Greater == {pr \in IndexPairs : Gt(lst1[pr[1]], lst2[pr[2]])}
Less == {pr \in IndexPairs : Lt(lst1[pr[1]], lst2[pr[2]])}

\* C13: for non-empty groups A and B, cliffs_delta(A, B) is (number of pairs
\* with a > b minus number of pairs with a < b) over |A|*|B|, counted over
\* the whole Cartesian product, and lies in [-1, 1].
C13_DeltaIsPairCountQuotient ==
    (delta.status # "pending" /\ lst1 # <<>> /\ lst2 # <<>>) =>
        /\ delta.status = "returned"
        /\ delta.num = Cardinality(Greater) - Cardinality(Less)
        /\ delta.den = Len(lst1) * Len(lst2)
        /\ -delta.den <= delta.num
        /\ delta.num <= delta.den

C13_Witness ==
    /\ delta.status = "returned"
    /\ lst1 = <<2, 1, 2>>
    /\ lst2 = <<1, 2>>
    /\ delta.num = 1
    /\ delta.den = 6

(***************************************************************************)
(* CLAIMS ABOUT THE TESTS ON A GIVEN TABLE (checked under SpecData)        *)
(***************************************************************************)
\* The table of the first scenario: blocks of 1s, 2s, 3s, 4s and 100s.
Scenario14 == latency = BlockLatency(<<1, 2, 3, 4, 100>>)
\* The table of the second scenario: every latency is 5.
Scenario15 == latency = BlockLatency(<<5, 5, 5, 5, 5>>)

KwDone(f) == kwP[f] # NoP

\* The post-hoc table has a Q1-vs-Q5 row that shows a Cliff's delta of -1.
Q1vsQ5IsMinusOne ==
    \E k \in DOMAIN posthoc.rows :
        /\ posthoc.rows[k].pair = <<1, NumBins>>
        /\ posthoc.rows[k].effect = "delta"
        /\ posthoc.rows[k].delta.status = "returned"
        /\ posthoc.rows[k].delta.num = -posthoc.rows[k].delta.den

ScenarioSignificantWithFullEffect ==
    /\ pc # "raised"
    /\ \A f \in Factors : KwDone(f) => kwP[f] < Alpha /\ kwTable[f].p < Alpha
    /\ (pc = "gate" \/ pc = "done") => posthoc.factor = 0 \/ posthoc.ran
    /\ posthoc.ran => Q1vsQ5IsMinusOne

\* C14 (as stated): on the table [1 x5, 2 x5, 3 x5, 4 x5, 100 x5] with a
\* strictly increasing covariate, every script reports a Kruskal-Wallis
\* p-value below 0.05, runs the post-hoc step, and the post-hoc table has a
\* Q1-vs-Q5 record whose Cliff's delta is -1.
C14_ScenarioSignificantDeltaMinusOne ==
    Scenario14 => ScenarioSignificantWithFullEffect

\* C14 (amended): the same, for the scripts that build pair records (all but
\* Latency_analysis_each_function.py, which prints Dunn's matrix only).
C14_ScenarioSignificantDeltaMinusOneInTables ==
    (Scenario14 /\ script # "EachFunction") => ScenarioSignificantWithFullEffect

C14_Witness ==
    /\ Scenario14
    /\ script = "StatLow"
    /\ pc = "done"
    /\ posthoc.ran
    /\ Q1vsQ5IsMinusOne
    /\ \A f \in Factors : kwTable[f].note = "significant"

\* C15: when every latency of the table is the same (five groups of
\* [5, 5, 5, 5, 5]), the omnibus step ends with a result that is not
\* significant, and no pairwise post-hoc comparison is computed.
C15_IdenticalGroupsNotSignificantNoPosthoc ==
    Scenario15 =>
        /\ pc # "raised"
        /\ \A f \in Factors : KwDone(f) => kwP[f] >= Alpha
        /\ dunnRan = {}
        /\ ~posthoc.ran

(***************************************************************************)
(* CLAIMS ABOUT THE PAIR RECORDS AND THE SIGNIFICANCE FLAG                 *)
(* (checked under Spec)                                                    *)
(***************************************************************************)
\* The ten pairs in the order Q1 vs Q2, Q1 vs Q3, Q1 vs Q4, Q1 vs Q5,
\* Q2 vs Q3, ..., Q4 vs Q5.
FixedOrder ==
    <<<<1, 2>>, <<1, 3>>, <<1, 4>>, <<1, 5>>, <<2, 3>>,
      <<2, 4>>, <<2, 5>>, <<3, 4>>, <<3, 5>>, <<4, 5>>>>

TenRecordsInFixedOrder ==
    /\ Len(posthoc.rows) = 10
    /\ \A k \in 1..10 :
        /\ posthoc.rows[k].pair = FixedOrder[k]
        /\ posthoc.rows[k].raw = posthoc.matrix[FixedOrder[k]]
        /\ posthoc.rows[k].p = PAdjust(script, posthoc.matrix[FixedOrder[k]])
    /\ \A k, l \in DOMAIN posthoc.rows :
        /\ posthoc.rows[k].pair[1] # posthoc.rows[k].pair[2]
        /\ k # l => posthoc.rows[k].pair # posthoc.rows[l].pair
        /\ k # l => posthoc.rows[k].pair # <<posthoc.rows[l].pair[2], posthoc.rows[l].pair[1]>>

C17_FlaggedIffBelowAlpha ==
    \A f \in Factors :
        KwDone(f) =>
            /\ kwTable[f].note # "none" =>
                   (kwTable[f].note = "significant" <=> kwP[f] < Alpha)
            /\ ParagraphFlag(script, f) # "none" =>
                   (ParagraphFlag(script, f) = "significant" <=> kwP[f] < Alpha)
            /\ (script # "EachFunction" /\ posthoc.factor = f) =>
                   (posthoc.ran <=> kwP[f] < Alpha)

(***************************************************************************)
(* CLAIM ABOUT THE INDEX-MODE GROUPING (checked under SpecGroup)           *)
(***************************************************************************)
\* The first row, in file order, of the group with key k.
FirstRowOf(k) == frame.rows[Min(Members(frame, k))]

\* C19: in index mode the frame kept for a latency file has exactly one row
\* per (Iteration, UserIndex) group (per Iteration when the file has no
\* UserIndex), and that row is the first row of the group in file order,
\* with all its fields, the latency included.
C19_FirstRowOfEachGroupKept ==
    grouped.status = "grouped" =>
        /\ \A k \in GroupKeys(frame) :
               Cardinality({n \in DOMAIN grouped.rows :
                               KeyOf(grouped.rows[n]) = k}) = 1
        /\ \A n \in DOMAIN grouped.rows :
               /\ KeyOf(grouped.rows[n]) \in GroupKeys(frame)
               /\ grouped.rows[n] = FirstRowOf(KeyOf(grouped.rows[n]))

(***************************************************************************)
(* CLAIM ABOUT TIES (checked under SpecBin)                                *)
(***************************************************************************)
\* C20 (as stated): rows that share a value on a quintile boundary are split
\* between the two adjacent bins by input order, earlier rows in the lower
\* bin: the labels are those of the rows' positions in the stable sort of
\* the column, cut into equal-sized bins.
C20_TiesSplitByRowOrder ==
    Labelled => qcutResult.labels = QcutByRank(column).labels

\* C20 (amended): rows of equal covariate value always get the same label;
\* a tie is never split, whatever that does to the sizes of the bins.
C20_TiesShareLabel ==
    Labelled =>
        \A i, j \in DOMAIN column :
            column[i] = column[j] => qcutResult.labels[i] = qcutResult.labels[j]

C20_Witness ==
    /\ column = <<1, 2, 2, 3, 4>>
    /\ Labelled
    /\ qcutResult.labels = <<1, 2, 2, 4, 5>>
    /\ QcutByRank(column).labels = <<1, 2, 3, 4, 5>>

(***************************************************************************)
(* CLAIM ABOUT THE NUMBER OF OMNIBUS TESTS (checked under Spec)            *)
(***************************************************************************)
\* C21: within one run, kruskal is called exactly once per covariate: never
\* a second time, and once for every covariate when the script is done; the
\* gate and the report use that one result.
C21_KruskalOncePerCovariate ==
    \A f \in Factors :
        /\ kwCalls[f] <= 1
        /\ pc = "done" => kwCalls[f] = 1

(***************************************************************************)
(* CLAIM ABOUT THE MERGED TABLE AFTER LOADING (checked under Spec)         *)
(***************************************************************************)
\* C22: once the Loader has returned the merged table, the later stages
\* leave it as it is: it keeps the columns it was returned with, no column
\* is added.
C22_TableUnchangedAfterLoading == tableCols = LoadedCols


\* ---------------------------------------------------------------------------
\* CLAIM ABOUT THE TWO DEFINITIONS OF plot_combined_data (checked under SpecLoad)
\* ---------------------------------------------------------------------------

\* C23: in a script that defines plot_combined_data twice, the call that plots
\* the combined data executes the body of the second definition.
C23_PlotCallRunsSecondDefinition ==
    (loader \in DefinedTwice /\ mainOut.plotted # 0) => mainOut.plotted = 2


\* ---------------------------------------------------------------------------
\* CLAIM ABOUT AN EMPTY QUINTILE GROUP (checked under SpecData)
\* ---------------------------------------------------------------------------
EmptyGroupTested ==
    /\ qcutResult.status = "labelled"
    /\ HasEmptyGroup(TableGroups)
    /\ kwCalls[1] > 0

\* C24: when one of the five quintile groups handed to the omnibus step is
\* empty, the step fails with an error: the script ends there, no omnibus
\* result is kept and no line of the report is written for it.
C24_EmptyGroupFailsExplicitly ==
    EmptyGroupTested =>
        /\ pc = "raised"
        /\ \A f \in Factors : kwP[f] = NoP /\ kwTable[f] = NoRow


\* ---------------------------------------------------------------------------
\* CLAIM ABOUT THE INDEX-BASED MERGE (checked under SpecIndex)
\* ---------------------------------------------------------------------------
MergeDone == lpc \in {"done", "exit", "end"}

AllGas == ConcatFrames(gasList)
AllLat == ConcatFrames(latencyList)

RECURSIVE RowsBefore(_, _)
RowsBefore(frames, k) ==
    IF k <= 1 THEN 0 ELSE RowsBefore(frames, k - 1) + Len(frames[k - 1])

ShorterLen == IF Len(AllGas) < Len(AllLat) THEN Len(AllGas) ELSE Len(AllLat)

\* Every merged record is made of the rows at one and the same position of
\* the two concatenated tables, and the records keep the order of the rows.
PairedByPosition ==
    /\ \A r \in DOMAIN merged :
          \E i \in 1..ShorterLen :
              /\ merged[r].gas = AllGas[i].gas
              /\ merged[r].lat = AllLat[i].lat
              /\ merged[r].hash = AllGas[i].hash
    /\ \A r, q \in DOMAIN merged : r < q => merged[r].gas < merged[q].gas
    /\ Len(merged) <= ShorterLen

\* C25 as stated: records are paired by position, there are at most
\* min(#block rows, #latency rows) of them, and a record pairs a latency of
\* the k-th latency file with a block row of the k-th block file only if the
\* files before the k-th gave as many rows on both sides.
C25_SameFileOnlyIfEarlierCountsEqual ==
    MergeDone =>
        /\ PairedByPosition
        /\ \A r \in DOMAIN merged :
              FileOf(merged[r].lat) = FileOf(merged[r].gas) =>
                  RowsBefore(latencyList, FileOf(merged[r].lat))
                      = RowsBefore(gasList, FileOf(merged[r].gas))

\* C25, amended: records are paired by position, there are at most
\* min(#block rows, #latency rows) of them, and a record pairs a row of the
\* k-th latency file with the SAME row of the k-th block file exactly when
\* the files before the k-th gave as many rows on both sides; rows of the
\* k-th files that are not each other's counterpart are paired as well.
C25_SameRowIffEarlierCountsEqual ==
    MergeDone =>
        /\ PairedByPosition
        /\ \A r \in DOMAIN merged :
              (merged[r].lat = merged[r].gas) <=>
                  /\ FileOf(merged[r].lat) = FileOf(merged[r].gas)
                  /\ RowsBefore(latencyList, FileOf(merged[r].lat))
                        = RowsBefore(gasList, FileOf(merged[r].gas))

\* Two rows of the second files are paired although the first files gave
\* two latency rows and one block row.
C25_Witness ==
    /\ MergeDone
    /\ Len(latencyList[1]) = 2
    /\ Len(gasList[1]) = 1
    /\ \E r \in DOMAIN merged :
          /\ FileOf(merged[r].lat) = 2
          /\ FileOf(merged[r].gas) = 2
          /\ merged[r].lat # merged[r].gas


\* ---------------------------------------------------------------------------
\* CLAIM ABOUT THE ORDER OF THE QUINTILE LABELS (checked under SpecBin)
\* ---------------------------------------------------------------------------

\* C26: in a table the binner has labelled, every record has exactly one of
\* the five labels, and the labels grow with the covariate: a record whose
\* value is less than or equal to another's has a label less than or equal to
\* the other's in the order Q1 < ... < Q5; records of equal value have the
\* same label.
C26_LabelsMonotoneInCovariate ==
    Labelled =>
        /\ DOMAIN qcutResult.labels = DOMAIN column
        /\ \A i \in DOMAIN column : qcutResult.labels[i] \in 1..NumBins
        /\ \A i, j \in DOMAIN column :
              /\ column[i] <= column[j] => qcutResult.labels[i] <= qcutResult.labels[j]
              /\ column[i] = column[j] => qcutResult.labels[i] = qcutResult.labels[j]

\* A labelled column given out of order, with a tie and with values in
\* different quintiles.
C26_Witness ==
    /\ Labelled
    /\ \E i, j \in DOMAIN column :
          i < j /\ column[i] > column[j] /\ qcutResult.labels[i] > qcutResult.labels[j]
    /\ \E i, j \in DOMAIN column : i # j /\ column[i] = column[j]


\* ---------------------------------------------------------------------------
\* CLAIM ABOUT THE NUMBER OF RECORDS OF THE HASH JOIN (checked under SpecLoad)
\* ---------------------------------------------------------------------------
\* The rows of a table with transaction hash h and no missing field.
CompleteWithHash(rows, h, field) ==
    {i \in DOMAIN rows : rows[i].hash = h /\ Present(rows[i][field])}

\* Sum over the hashes 1..h of (block rows with the hash) x (latency rows
\* with the hash).
RECURSIVE MatchingCombinations(_)
MatchingCombinations(h) ==
    IF h = 0 THEN 0
    ELSE MatchingCombinations(h - 1)
            + Cardinality(CompleteWithHash(GasTable, h, "gas"))
                * Cardinality(CompleteWithHash(LatencyTable, h, "lat"))

\* C27: in transaction-hash mode the number of merged records is the sum,
\* over the non-missing hashes h, of (block rows with hash h) x (latency rows
\* with hash h), counting only the rows without a missing field.
C27_MergedCountIsSumOfProducts ==
    (Returned /\ mode = "hash") => Len(merged) = MatchingCombinations(MaxKey)


\* ---------------------------------------------------------------------------
\* CLAIM ABOUT THE PHASE1 REPORT (checked under Spec)
\* ---------------------------------------------------------------------------

\* C28: in the Phase1 report a covariate gets its quintile-summary and
\* pairwise post-hoc pages if and only if its row of the Kruskal-Wallis table
\* carries the interpretation 'Significant differences'.
C28_Phase1PagesIffSignificantRow ==
    (script = "Phase1" /\ pc = "done") =>
        \A f \in Factors : (f \in dunnRan) <=> (kwTable[f].note = "significant")


\* ---------------------------------------------------------------------------
\* CLAIM ABOUT LATENCY FILES THAT DISAGREE ON UserIndex (checked under SpecIndex)
\* ---------------------------------------------------------------------------
WithUserIndex(k) == latencyList[k] # <<>> /\ latencyList[k][1].user # NoCol
WithoutUserIndex(k) == latencyList[k] # <<>> /\ latencyList[k][1].user = NoCol

FilesDisagree ==
    \E k, l \in DOMAIN latencyList : WithUserIndex(k) /\ WithoutUserIndex(l)

\* C29: in index-based mode, when the latency files of one call disagree on
\* having a UserIndex column, no row of a file without UserIndex is in the
\* merged table.
C29_NoRowFromFileWithoutUserIndex ==
    (MergeDone /\ FilesDisagree) =>
        \A r \in DOMAIN merged : ~WithoutUserIndex(FileOf(merged[r].lat))

\* The first file has UserIndex and gives a merged record, the second has
\* none and its row, although it has a block row beside it, is dropped.
C29_Witness ==
    /\ MergeDone
    /\ WithUserIndex(1)
    /\ WithoutUserIndex(2)
    /\ Len(AllGas) >= Len(AllLat)
    /\ \A i \in DOMAIN AllGas : Present(AllGas[i].hash)
    /\ merged # <<>>
    /\ Len(merged) < Len(AllLat)


\* ---------------------------------------------------------------------------
\* CLAIM ABOUT THE SYMMETRY OF CLIFF'S DELTA (checked under SpecDelta)
\* ---------------------------------------------------------------------------

\* C30: for non-empty groups A and B, cliffs_delta(A, B) is the opposite of
\* cliffs_delta(B, A), and cliffs_delta(A, A) is 0.
C30_DeltaAntisymmetric ==
    (delta.status # "pending" /\ lst1 # <<>> /\ lst2 # <<>>) =>
        LET swapped == CliffsDelta(lst2, lst1)
        IN  /\ delta.status = "returned"
            /\ swapped.status = "returned"
            /\ swapped.den = delta.den
            /\ swapped.num = -delta.num
            /\ lst1 = lst2 => delta.num = 0

C30_Witness ==
    /\ delta.status = "returned"
    /\ lst1 = <<1, 2>>
    /\ lst2 = <<2, 2, 1>>
    /\ delta.num = -1
    /\ CliffsDelta(lst2, lst1).num = 1

=============================================================================
